---- MODULE Spec2Model ----
(***************************************************************************)
(* Model of Backend/main.py: the NDVI transform (compute_ndvi), the        *)
(* statistics classifier (calculate_statistics), the renderer              *)
(* (generate_ndvi_image) with pyplot's global figure registry, and the two *)
(* POST handlers that chain them.                                          *)
(*                                                                         *)
(* A float is a record: a finite value is the exact fraction n/d in lowest *)
(* terms (d > 0), and NaN, +Inf and -Inf are values of their own, with the *)
(* IEEE-754 rules for them.  Band values are counted in units of 1e-6, so  *)
(* that the epsilon of compute_ndvi is one unit.  Band magnitudes stay far *)
(* below the float32 maximum, so no sum of two of them overflows, and the  *)
(* rounding of float32 results is left out: it is monotone, and the        *)
(* thresholds a float32 array is compared with are rounded the same way.   *)
(*                                                                         *)
(* The handlers are coroutines on one event loop: a handler runs without   *)
(* interruption from one await to the next.                                *)
(***************************************************************************)
EXTENDS Integers, Sequences, FiniteSets, TLC

VARIABLES
    pc,         \* position of the pure pipeline: "transform", "classify", "done"
    red_band,   \* grid handed to compute_ndvi as red_band
    nir_band,   \* grid handed to compute_ndvi as nir_band
    ndvi_res,   \* outcome of compute_ndvi (a grid or a raised ValueError)
    ndvi,       \* grid handed to calculate_statistics
    stats_res,  \* outcome of calculate_statistics
    counts,     \* the class counts calculate_statistics held in its locals
    req,        \* per request: the handler's position, locals and response
    plt         \* pyplot's global state: open figures in order, last is current

vars == <<pc, red_band, nir_band, ndvi_res, ndvi, stats_res, counts, req, plt>>

(***************************************************************************)
(* Bounds of the model.                                                    *)
(***************************************************************************)
MaxCells == 2      \* a small grid has at most this many pixels
MaxPixels == 32    \* a long one-row NDVI grid has at most this many pixels

(***************************************************************************)
(* Floats.                                                                 *)
(***************************************************************************)
Abs(x) == IF x < 0 THEN -x ELSE x

Sgn(x) == IF x < 0 THEN -1 ELSE IF x > 0 THEN 1 ELSE 0

RECURSIVE Gcd(_, _)
Gcd(a, b) == IF b = 0 THEN a ELSE Gcd(b, a % b)

\* the finite value n/d (d # 0), in lowest terms with a positive denominator
F(n, d) ==
    LET g == Gcd(Abs(n), Abs(d))
    IN [k |-> "fin", n |-> (Sgn(d) * n) \div g, d |-> Abs(d) \div g]

NaN == [k |-> "nan", n |-> 0, d |-> 1]
PInf == [k |-> "inf", n |-> 1, d |-> 1]
NInf == [k |-> "inf", n |-> -1, d |-> 1]

Inf(s) == IF s < 0 THEN NInf ELSE PInf

Zero == F(0, 1)

FNeg(a) == IF a.k = "nan" THEN NaN ELSE [a EXCEPT !.n = -a.n]

FAdd(a, b) ==
    IF a.k = "nan" \/ b.k = "nan" THEN NaN
    ELSE IF a.k = "inf" /\ b.k = "inf" THEN (IF a.n = b.n THEN a ELSE NaN)
    ELSE IF a.k = "inf" THEN a
    ELSE IF b.k = "inf" THEN b
    ELSE F(a.n * b.d + b.n * a.d, a.d * b.d)

FSub(a, b) == FAdd(a, FNeg(b))

FDiv(a, b) ==
    IF a.k = "nan" \/ b.k = "nan" THEN NaN
    ELSE IF a.k = "inf" /\ b.k = "inf" THEN NaN
    ELSE IF a.k = "inf" THEN Inf(a.n * (IF b.n < 0 THEN -1 ELSE 1))
    ELSE IF b.k = "inf" THEN Zero
    ELSE IF b.n = 0 THEN (IF a.n = 0 THEN NaN ELSE Inf(a.n))
    ELSE F(a.n * b.d, a.d * b.n)

FAbs(a) == IF a.k = "nan" THEN NaN ELSE [a EXCEPT !.n = Abs(a.n)]

\* a < b; every comparison with NaN is false
FLt(a, b) ==
    /\ a.k # "nan"
    /\ b.k # "nan"
    /\ \/ a.k = "inf" /\ a.n < 0 /\ b # NInf
       \/ b.k = "inf" /\ b.n > 0 /\ a # PInf
       \/ a.k = "fin" /\ b.k = "fin" /\ a.n * b.d < b.n * a.d

FGt(a, b) == FLt(b, a)

FLe(a, b) == a.k # "nan" /\ b.k # "nan" /\ ~FLt(b, a)

\* a mask that only drops NaN
isfinite_notnan(a) == a.k # "nan"

\* np.isfinite of one element
isfinite(a) == a.k = "fin"

(***************************************************************************)
(* Grids: a 2-D array is its shape and its pixels in row-major order.      *)
(***************************************************************************)
Grid(h, w, data) == [shape |-> <<h, w>>, data |-> data]

Size(g) == Len(g.data)

NoGrid == Grid(0, 0, <<>>)

\* the outcome of a call: a returned value or a raised exception
Return(v) == [ok |-> TRUE, value |-> v, exc |-> "", detail |-> <<>>]

Raise(e, v, d) == [ok |-> FALSE, value |-> v, exc |-> e, detail |-> d]

\* the outcome slot of a call that has not been made
NotCalled(v) == [ok |-> FALSE, value |-> v, exc |-> "", detail |-> <<>>]

(***************************************************************************)
(* compute_ndvi                                                            *)
(***************************************************************************)
Epsilon == 1      \* 1e-6, in band units of 1e-6

\* a mask that only excludes an exactly zero denominator
valid_mask_nonzero(denominator) ==
    [i \in 1..Len(denominator) |-> denominator[i] # Zero]

\* np.abs(denominator) > 1e-6
valid_mask(denominator) ==
    [i \in 1..Len(denominator) |-> FGt(FAbs(denominator[i]), F(Epsilon, 1))]

\* no clamp at all
clip_none(x, lo, hi) == x

\* np.clip(x, lo, hi) of one element; NaN passes through
clip(x, lo, hi) ==
    IF x.k = "nan" THEN NaN
    ELSE IF FLt(x, lo) THEN lo
    ELSE IF FGt(x, hi) THEN hi
    ELSE x

\* a shape check that compares only the number of pixels
shapes_match_by_size(red, nir) == Size(red) = Size(nir)

\* red_band.shape == nir_band.shape
shapes_match(red, nir) == red.shape = nir.shape

compute_ndvi(red, nir) ==
    IF ~shapes_match(red, nir)
    THEN Raise("ValueError", NoGrid,
               <<"Band dimension mismatch", red.shape, nir.shape>>)
    ELSE LET n == Size(red)
             numerator == [i \in 1..n |-> FSub(nir.data[i], red.data[i])]
             denominator == [i \in 1..n |-> FAdd(nir.data[i], red.data[i])]
             zeros == [i \in 1..n |-> Zero]
             mask == valid_mask(denominator)
             assigned == [i \in 1..n |->
                             IF mask[i] THEN FDiv(numerator[i], denominator[i])
                             ELSE zeros[i]]
             clipped == [i \in 1..n |-> clip(assigned[i], F(-1, 1), F(1, 1))]
         IN Return(Grid(red.shape[1], red.shape[2], clipped))

(***************************************************************************)
(* calculate_statistics                                                    *)
(***************************************************************************)
\* ndvi[np.isfinite(ndvi)]: the finite pixels, flattened
valid_ndvi(g) == SelectSeq(g.data, isfinite)

\* the band thresholds 0.2, 0.4 and 0.6
T02 == F(2, 10)
T04 == F(4, 10)
T06 == F(6, 10)

\* np.sum(mask): the number of positions of v a boolean mask selects
CountTrue(mask) == Cardinality({i \in 1..Len(mask) : mask[i]})

healthy_count(v) == CountTrue([i \in 1..Len(v) |-> FGt(v[i], T06)])

\* the moderate band closed at its lower edge
moderate_count_closed(v) == CountTrue([i \in 1..Len(v) |-> FLe(T04, v[i]) /\ FLe(v[i], T06)])

moderate_count(v) == CountTrue([i \in 1..Len(v) |-> FGt(v[i], T04) /\ FLe(v[i], T06)])

stressed_count(v) == CountTrue([i \in 1..Len(v) |-> FGt(v[i], T02) /\ FLe(v[i], T04)])

\* the bare band open at its upper edge
bare_count_open(v) == CountTrue([i \in 1..Len(v) |-> FLt(v[i], T02)])

bare_count(v) == CountTrue([i \in 1..Len(v) |-> FLe(v[i], T02)])

\* the four local counts and total_pixels of calculate_statistics
class_counts(v) ==
    [healthy |-> healthy_count(v), moderate |-> moderate_count(v),
     stressed |-> stressed_count(v), bare |-> bare_count(v),
     total_pixels |-> Len(v)]

\* truncation instead of rounding
RoundDown(a, b) == a \div b

\* round(x, 0) of the fraction a/b (b > 0): to the nearest integer, ties to even
RoundHalfEven(a, b) ==
    LET q == a \div b
        r == a % b
    IN IF 2 * r < b THEN q
       ELSE IF 2 * r > b THEN q + 1
       ELSE IF q % 2 = 0 THEN q ELSE q + 1

\* round((count / total_pixels) * 100, 2), in hundredths of a percent
percent(count, total_pixels) == RoundHalfEven(10000 * count, total_pixels)

NoStats ==
    [healthy_vegetation_percent |-> 0, moderate_vegetation_percent |-> 0,
     stressed_vegetation_percent |-> 0, bare_land_percent |-> 0,
     total_valid_pixels |-> 0]

NoCounts ==
    [healthy |-> 0, moderate |-> 0, stressed |-> 0, bare |-> 0, total_pixels |-> 0]

\* The returned record holds the percentages (in hundredths) and the pixel
\* count; mean, std, min and max are float summaries of the same pixels that
\* no other field depends on, and are not represented.
stats_dict(healthy, moderate, stressed, bare, total_pixels) ==
    [healthy_vegetation_percent |-> percent(healthy, total_pixels),
     moderate_vegetation_percent |-> percent(moderate, total_pixels),
     stressed_vegetation_percent |-> percent(stressed, total_pixels),
     bare_land_percent |-> percent(bare, total_pixels),
     total_valid_pixels |-> total_pixels]

\* the outcome of calculate_statistics, given its masked pixels
statistics_of(v) ==
    IF Len(v) = 0
    THEN Raise("ValueError", NoStats,
               <<"No valid NDVI pixels found after masking">>)
    ELSE Return(stats_dict(healthy_count(v), moderate_count(v),
                           stressed_count(v), bare_count(v), Len(v)))

calculate_statistics(g) == statistics_of(valid_ndvi(g))

(***************************************************************************)
(* Inputs of the pure pipeline.                                            *)
(***************************************************************************)
BandValues == {F(-1, 1), Zero, F(1, 1), F(3, 1), NaN, PInf}

NdviValues ==
    {F(-1, 1), Zero, F(1, 5), F(201, 1000), F(2, 5), F(401, 1000),
     F(3, 5), F(601, 1000), F(1, 1), NaN, PInf, NInf}

Shapes == {s \in (0..MaxCells) \X (0..MaxCells) : s[1] * s[2] <= MaxCells}

Grids(values) ==
    UNION {{Grid(s[1], s[2], d) : d \in [1..(s[1] * s[2]) -> values]} : s \in Shapes}

\* a one-row grid of h healthy, m moderate, s stressed and b bare pixels
RunGrid(h, m, s, b) ==
    Grid(1, h + m + s + b,
         [i \in 1..(h + m + s + b) |->
             IF i <= h THEN F(4, 5)
             ELSE IF i <= h + m THEN F(1, 2)
             ELSE IF i <= h + m + s THEN F(3, 10)
             ELSE Zero])

Idle == <<>>

NoPlt == [order |-> <<>>, content |-> <<>>]

InitTransform ==
    /\ pc = "transform"
    /\ red_band \in Grids(BandValues)
    /\ nir_band \in Grids(BandValues)
    /\ ndvi = NoGrid
    /\ ndvi_res = NotCalled(NoGrid)
    /\ stats_res = NotCalled(NoStats)
    /\ counts = NoCounts
    /\ req = Idle
    /\ plt = NoPlt

InitClassify ==
    /\ pc = "classify"
    /\ red_band = NoGrid
    /\ nir_band = NoGrid
    /\ ndvi \in Grids(NdviValues)
    /\ ndvi_res = NotCalled(NoGrid)
    /\ stats_res = NotCalled(NoStats)
    /\ counts = NoCounts
    /\ req = Idle
    /\ plt = NoPlt

\* long one-row grids, one per split of the pixels into the four bands
InitPercent ==
    /\ pc = "classify"
    /\ red_band = NoGrid
    /\ nir_band = NoGrid
    /\ \E h \in 0..MaxPixels : \E m \in 0..(MaxPixels - h) :
       \E s \in 0..(MaxPixels - h - m) : \E b \in 0..(MaxPixels - h - m - s) :
          ndvi = RunGrid(h, m, s, b)
    /\ ndvi_res = NotCalled(NoGrid)
    /\ stats_res = NotCalled(NoStats)
    /\ counts = NoCounts
    /\ req = Idle
    /\ plt = NoPlt

Init == InitTransform \/ InitClassify

\* ndvi = compute_ndvi(red_array, nir_array)
ComputeNdvi ==
    /\ pc = "transform"
    /\ ndvi_res' = compute_ndvi(red_band, nir_band)
    /\ ndvi' = ndvi_res'.value
    /\ pc' = IF ndvi_res'.ok THEN "classify" ELSE "done"
    /\ UNCHANGED <<red_band, nir_band, stats_res, counts, req, plt>>

\* stats = calculate_statistics(ndvi)
CalculateStatistics ==
    /\ pc = "classify"
    /\ stats_res' = calculate_statistics(ndvi)
    /\ counts' = IF Len(valid_ndvi(ndvi)) = 0 THEN NoCounts
                 ELSE class_counts(valid_ndvi(ndvi))
    /\ pc' = "done"
    /\ UNCHANGED <<red_band, nir_band, ndvi_res, ndvi, req, plt>>

Next == ComputeNdvi \/ CalculateStatistics

Spec == Init /\ [][Next]_vars

NextPercent == CalculateStatistics

SpecPercent == InitPercent /\ [][NextPercent]_vars

(***************************************************************************)
(* pyplot's global state and generate_ndvi_image.                          *)
(*                                                                         *)
(* plt.order lists the numbers of the open figures, oldest first; the last *)
(* one is the current figure.  plt.content gives what each open figure     *)
(* shows, and the request whose call created it.                           *)
(***************************************************************************)
\* an exception raised by the environment at one point of a handler
NoFault == [at |-> "none", exc |-> ""]

BlankFigure(owner) ==
    [owner |-> owner, image |-> NoGrid, colorbar |-> FALSE, laid_out |-> FALSE]

NoImage == BlankFigure(0)

\* the oldest open figure instead of the current one
gcf_oldest(p) == p.order[1]

\* plt.gcf(): the current figure, which plt.colorbar, plt.tight_layout and
\* plt.savefig act on
gcf(p) == p.order[Len(p.order)]

\* plt.subplots(): a new figure, numbered after the highest open one, becomes current
subplots(p, owner) ==
    LET num == IF Len(p.order) = 0 THEN 1
               ELSE 1 + (CHOOSE m \in DOMAIN p.content :
                            \A k \in DOMAIN p.content : k <= m)
    IN [order |-> Append(p.order, num),
        content |-> (num :> BlankFigure(owner)) @@ p.content]

\* ax.imshow(ndvi, ...) on the axes of figure fig
imshow(p, fig, grid) == [p EXCEPT !.content[fig].image = grid]

\* plt.colorbar(im, ax=ax, ...)
colorbar(p) == [p EXCEPT !.content[gcf(p)].colorbar = TRUE]

\* plt.tight_layout()
tight_layout(p) == [p EXCEPT !.content[gcf(p)].laid_out = TRUE]

\* plt.savefig(buf, format='png', ...): the encoded picture of the current figure
savefig(p) == p.content[gcf(p)]

\* plt.close(fig)
close(p, fig) ==
    [order |-> SelectSeq(p.order, LAMBDA k : k # fig),
     content |-> [k \in DOMAIN p.content \ {fig} |-> p.content[k]]]

RenderPoints == {"subplots", "imshow", "colorbar", "tight_layout", "savefig"}

\* generate_ndvi_image(ndvi), called by request owner with pyplot in state p:
\* the outcome and pyplot's state after the call.  An exception leaves the
\* function where it is raised.
generate_ndvi_image(p, grid, owner, fault) ==
    LET p1 == subplots(p, owner)
        fig == gcf(p1)
        p2 == imshow(p1, fig, grid)
        p3 == colorbar(p2)
        p4 == tight_layout(p3)
        buf == savefig(p4)
        p5 == close(p4, fig)
        raised == Raise(fault.exc, NoImage, <<fault.at>>)
    IN IF fault.at = "subplots" THEN [res |-> raised, plt |-> p]
       ELSE IF fault.at = "imshow" THEN [res |-> raised, plt |-> p1]
       ELSE IF fault.at = "colorbar" THEN [res |-> raised, plt |-> p2]
       ELSE IF fault.at = "tight_layout" THEN [res |-> raised, plt |-> p3]
       ELSE IF fault.at = "savefig" THEN [res |-> raised, plt |-> p4]
       ELSE [res |-> Return(buf), plt |-> p5]

(***************************************************************************)
(* read_band and the two POST handlers.                                    *)
(***************************************************************************)
\* the uploads: what rasterio decodes each file's bytes to
Files == {"corrupt", "g1", "g3", "wide"}

Decodable(bytes) == bytes # "corrupt"

Raster(bytes) ==
    IF bytes = "g1" THEN Grid(1, 1, <<F(1, 1)>>)
    ELSE IF bytes = "g3" THEN Grid(1, 1, <<F(3, 1)>>)
    ELSE Grid(1, 2, <<PInf, PInf>>)

\* read_band(file_bytes, filename): the temporary file is written outside the
\* try block; every exception raised inside it becomes a ValueError
read_band(file_bytes, filename, fault, tmp_point, try_point) ==
    IF fault.at = tmp_point THEN Raise(fault.exc, NoGrid, <<tmp_point>>)
    ELSE IF ~Decodable(file_bytes)
    THEN Raise("ValueError", NoGrid, <<"Error reading band file", filename, "decode">>)
    ELSE IF fault.at = try_point
    THEN Raise("ValueError", NoGrid, <<"Error reading band file", filename, fault.exc>>)
    ELSE Return(Raster(file_bytes))

Response(status, body, stats, image, detail) ==
    [status |-> status, body |-> body, statistics |-> stats, image |-> image,
     detail |-> detail]

NoResponse == Response(0, "", NoStats, NoImage, <<>>)

\* except ValueError: HTTPException(400); except Exception: HTTPException(500)
http_exception(res) ==
    Response(IF res.exc = "ValueError" THEN 400 ELSE 500, "error", NoStats,
             NoImage, res.detail)

\* what a handler leaves behind: its response, pyplot's state, the pipeline
\* steps it started, and the step that failed with the cause of the failure
Outcome(resp, p, ran, cause) ==
    [response |-> resp, plt |-> p, ran |-> ran, cause |-> cause]

\* the cause of a read_band failure
load_cause(file_bytes, fault, tmp_point) ==
    IF fault.at # tmp_point /\ ~Decodable(file_bytes) THEN "decode_failure"
    ELSE "unexpected"

\* the environment's exception at a point of a step, or the step's own outcome
step(res, fault, point) ==
    IF fault.at = point THEN Raise(fault.exc, res.value, <<point>>) ELSE res

\* the body of compute_ndvi_endpoint ("image") and compute_ndvi_json_endpoint
\* ("json") after both uploads have been read, for request owner
handle(owner, endpoint, red_bytes, nir_bytes, p, fault) ==
    LET red_array == read_band(red_bytes, red_bytes, fault, "tmp_red", "try_red")
        nir_array == read_band(nir_bytes, nir_bytes, fault, "tmp_nir", "try_nir")
        \* the shape check of compute_ndvi comes before its arithmetic
        own == compute_ndvi(red_array.value, nir_array.value)
        nd == IF own.ok THEN step(own, fault, "transform") ELSE own
        st == step(calculate_statistics(nd.value), fault, "classify")
        im == generate_ndvi_image(p, nd.value, owner, fault)
    IN IF ~red_array.ok
       THEN Outcome(http_exception(red_array), p, <<"load_red">>,
                    load_cause(red_bytes, fault, "tmp_red"))
       ELSE IF ~nir_array.ok
       THEN Outcome(http_exception(nir_array), p, <<"load_red", "load_nir">>,
                    load_cause(nir_bytes, fault, "tmp_nir"))
       ELSE IF ~nd.ok
       THEN Outcome(http_exception(nd), p, <<"load_red", "load_nir", "transform">>,
                    IF own.ok THEN "unexpected" ELSE "shape_mismatch")
       ELSE IF ~st.ok
       THEN Outcome(http_exception(st), p,
                    <<"load_red", "load_nir", "transform", "classify">>,
                    IF fault.at = "classify" THEN "unexpected" ELSE "no_valid_pixels")
       ELSE IF endpoint = "json"
       THEN Outcome(Response(200, "json", st.value, NoImage, <<>>), p,
                    <<"load_red", "load_nir", "transform", "classify">>, "")
       ELSE IF ~im.res.ok
       THEN Outcome(http_exception(im.res), im.plt,
                    <<"load_red", "load_nir", "transform", "classify", "render">>,
                    "unexpected")
       ELSE Outcome(Response(200, "image", st.value, im.res.value, <<>>), im.plt,
                    <<"load_red", "load_nir", "transform", "classify", "render">>, "")

\* the exceptions the environment can raise at each point
ReadFaults == {[at |-> "read", exc |-> "OSError"]}

BodyFaults ==
    {[at |-> a, exc |-> "OSError"] : a \in {"tmp_red", "tmp_nir"}}
    \cup {[at |-> a, exc |-> "MemoryError"] :
             a \in {"try_red", "try_nir", "transform", "classify"}}
    \cup {[at |-> a, exc |-> "RuntimeError"] : a \in RenderPoints}
    \cup {[at |-> "savefig", exc |-> "ValueError"]}

Requests == {1, 2}

NewRequest ==
    [pc |-> "new", endpoint |-> "", red_band |-> "", nir_band |-> "",
     red_bytes |-> "", nir_bytes |-> "", ran |-> <<>>, cause |-> "",
     fault |-> NoFault, response |-> NoResponse]

InitServe ==
    /\ pc = "serve"
    /\ red_band = NoGrid
    /\ nir_band = NoGrid
    /\ ndvi = NoGrid
    /\ ndvi_res = NotCalled(NoGrid)
    /\ stats_res = NotCalled(NoStats)
    /\ counts = NoCounts
    /\ req = [r \in Requests |-> NewRequest]
    /\ plt = NoPlt

\* a POST arrives; the handler starts and is suspended in await red_band.read()
Arrive(r) ==
    /\ req[r].pc = "new"
    /\ \E e \in {"image", "json"}, red \in Files, nir \in Files :
          req' = [req EXCEPT ![r].pc = "await_red", ![r].endpoint = e,
                             ![r].red_band = red, ![r].nir_band = nir,
                             ![r].ran = <<"read_red">>]
    /\ UNCHANGED <<pc, red_band, nir_band, ndvi_res, ndvi, stats_res, counts, plt>>

\* red_band.read() completes or raises; the handler goes on to
\* await nir_band.read(), or answers 500
ResumeRed(r) ==
    /\ req[r].pc = "await_red"
    /\ \/ req' = [req EXCEPT ![r].pc = "await_nir",
                             ![r].red_bytes = req[r].red_band,
                             ![r].ran = Append(@, "read_nir")]
       \/ \E fault \in ReadFaults :
             req' = [req EXCEPT ![r].pc = "done", ![r].cause = "unexpected",
                                ![r].fault = fault,
                                ![r].response =
                                    http_exception(Raise(fault.exc, NoGrid, <<"read">>))]
    /\ UNCHANGED <<pc, red_band, nir_band, ndvi_res, ndvi, stats_res, counts, plt>>

\* nir_band.read() completes or raises; from here the handler runs to its
\* response without another await
ResumeNir(r) ==
    /\ req[r].pc = "await_nir"
    /\ \/ \E fault \in BodyFaults \cup {NoFault} :
             LET out == handle(r, req[r].endpoint, req[r].red_bytes,
                               req[r].nir_band, plt, fault)
             IN /\ req' = [req EXCEPT ![r].pc = "done",
                                      ![r].nir_bytes = req[r].nir_band,
                                      ![r].ran = @ \o out.ran,
                                      ![r].cause = out.cause,
                                      ![r].fault = IF out.cause = "unexpected"
                                                   THEN fault ELSE NoFault,
                                      ![r].response = out.response]
                /\ plt' = out.plt
       \/ /\ \E fault \in ReadFaults :
                req' = [req EXCEPT ![r].pc = "done", ![r].cause = "unexpected",
                                   ![r].fault = fault,
                                   ![r].response =
                                       http_exception(Raise(fault.exc, NoGrid, <<"read">>))]
          /\ plt' = plt
    /\ UNCHANGED <<pc, red_band, nir_band, ndvi_res, ndvi, stats_res, counts>>

NextServe == \E r \in Requests : Arrive(r) \/ ResumeRed(r) \/ ResumeNir(r)

SpecServe == InitServe /\ [][NextServe]_vars

(***************************************************************************)
(* Properties of the transform and of the classifier.                      *)
(***************************************************************************)
\* compute_ndvi has been called on red_band and nir_band
Transformed == ndvi_res # NotCalled(NoGrid)

\* calculate_statistics has been called on ndvi
Classified == stats_res # NotCalled(NoStats)

FiniteGrid(g) == \A i \in 1..Size(g) : g.data[i].k = "fin"

\* the number of finite pixels of a grid
FiniteCount(g) == Cardinality({i \in 1..Size(g) : g.data[i].k = "fin"})

\* C1: for equal-shaped red and near-infrared grids whose values are all
\* finite, compute_ndvi returns a grid of the inputs' shape and every value of
\* it is a finite number in the closed interval [-1, 1].
C1_RangeInvariant ==
    (Transformed /\ red_band.shape = nir_band.shape
        /\ FiniteGrid(red_band) /\ FiniteGrid(nir_band))
    => /\ ndvi_res.ok
       /\ ndvi_res.value.shape = red_band.shape
       /\ Size(ndvi_res.value) = red_band.shape[1] * red_band.shape[2]
       /\ \A i \in 1..Size(ndvi_res.value) :
             LET x == ndvi_res.value.data[i]
             IN x.k = "fin" /\ -x.d <= x.n /\ x.n <= x.d

\* a two-pixel pair of finite grids whose raw quotients 2 and -2 leave [-1, 1]
C1_Witness ==
    /\ Transformed
    /\ red_band = Grid(1, 2, <<F(-1, 1), F(3, 1)>>)
    /\ nir_band = Grid(1, 2, <<F(3, 1), F(-1, 1)>>)
    /\ ndvi_res.ok
    /\ ndvi_res.value = Grid(1, 2, <<F(1, 1), F(-1, 1)>>)

\* C2: for two grids of unequal shape compute_ndvi raises the shape-mismatch
\* error naming both shapes, returns no grid, and nothing runs after it.
C2_ShapeMismatch ==
    (Transformed /\ red_band.shape # nir_band.shape)
    => /\ ~ndvi_res.ok
       /\ ndvi_res.exc = "ValueError"
       /\ ndvi_res.detail
            = <<"Band dimension mismatch", red_band.shape, nir_band.shape>>
       /\ ndvi_res.value = NoGrid
       /\ ndvi = NoGrid
       /\ pc = "done"
       /\ stats_res = NotCalled(NoStats)

\* a 1x2 red grid against a 2x1 near-infrared grid: as many pixels, another shape
C2_Witness ==
    /\ Transformed
    /\ red_band.shape = <<1, 2>>
    /\ nir_band.shape = <<2, 1>>
    /\ ~ndvi_res.ok

\* C3: at every position of finite bands, a denominator nir + red with
\* |nir + red| <= 1e-6 gives exactly 0.0, and a denominator with
\* |nir + red| > 1e-6 gives (nir - red) / (nir + red) clamped to [-1, 1].
C3_ZeroDenominatorPolicy ==
    (Transformed /\ red_band.shape = nir_band.shape)
    => \A i \in 1..Size(red_band) :
          (red_band.data[i].k = "fin" /\ nir_band.data[i].k = "fin")
          => LET r == red_band.data[i]
                 v == nir_band.data[i]
                 \* numerator and denominator over the common divisor r.d * v.d
                 num == v.n * r.d - r.n * v.d
                 den == v.n * r.d + r.n * v.d
                 x == ndvi_res.value.data[i]
             IN /\ x.k = "fin"
                /\ Abs(den) <= Epsilon * r.d * v.d => x = Zero
                /\ (Abs(den) > Epsilon * r.d * v.d /\ Abs(num) <= Abs(den))
                     => x.n * den = num * x.d
                /\ (Abs(den) > Epsilon * r.d * v.d /\ Abs(num) > Abs(den))
                     => x = F(Sgn(num) * Sgn(den), 1)

\* a dark pixel (0, 0), and a pixel whose denominator is exactly epsilon while
\* its numerator is not zero
C3_Witness ==
    /\ Transformed
    /\ red_band = Grid(2, 1, <<Zero, Zero>>)
    /\ nir_band = Grid(2, 1, <<Zero, F(1, 1)>>)
    /\ ndvi_res.value = Grid(2, 1, <<Zero, Zero>>)

\* C4: for an NDVI grid with N >= 1 finite pixels the four class counts sum
\* to exactly N, and total_valid_pixels is N: non-finite pixels are counted
\* in no band and no finite pixel is counted twice or skipped.
C4_CountsPartition ==
    (Classified /\ FiniteCount(ndvi) >= 1)
    => /\ stats_res.ok
       /\ counts.healthy + counts.moderate + counts.stressed + counts.bare
            = FiniteCount(ndvi)
       /\ counts.total_pixels = FiniteCount(ndvi)
       /\ stats_res.value.total_valid_pixels = FiniteCount(ndvi)

\* a grid with a non-finite pixel beside a pixel on a band boundary
C4_Witness ==
    /\ Classified
    /\ ndvi = Grid(1, 2, <<NaN, F(2, 5)>>)
    /\ counts.stressed = 1
    /\ stats_res.value.total_valid_pixels = 1

\* the band the claim gives each NDVI value of NdviValues: a boundary value
\* belongs to the lower band, a value just above it to the upper band
BandTable(x) ==
    IF x \in {F(-1, 1), Zero, F(1, 5)} THEN "bare_land"
    ELSE IF x \in {F(201, 1000), F(2, 5)} THEN "stressed"
    ELSE IF x \in {F(401, 1000), F(3, 5)} THEN "moderate"
    ELSE IF x \in {F(601, 1000), F(1, 1)} THEN "healthy"
    ELSE "none"

InBand(g, band) == Cardinality({i \in 1..Size(g) : BandTable(g.data[i]) = band})

C7_NoValidPixels ==
    Classified
    => /\ stats_res.ok <=> FiniteCount(ndvi) >= 1
       /\ ~stats_res.ok
            => /\ stats_res.exc = "ValueError"
               /\ stats_res.detail = <<"No valid NDVI pixels found after masking">>
               /\ stats_res.value = NoStats
               /\ counts = NoCounts
       /\ stats_res.ok => stats_res.exc = ""

\* a grid of one NaN and one infinity
C7_Witness ==
    /\ Classified
    /\ ndvi = Grid(1, 2, <<NaN, PInf>>)
    /\ ~stats_res.ok

\* the four reported percentages, summed, in hundredths of a percent
PercentSum ==
    stats_res.value.healthy_vegetation_percent
    + stats_res.value.moderate_vegetation_percent
    + stats_res.value.stressed_vegetation_percent
    + stats_res.value.bare_land_percent

\* C5 as stated: for N >= 1 finite pixels the four percentages sum to 100.0
\* within 0.01.
C5_SumWithinOneHundredth ==
    (Classified /\ FiniteCount(ndvi) >= 1) => Abs(PercentSum - 10000) <= 1

\* C5 as amended: for N >= 1 finite pixels the four percentages, each rounded
\* on its own to 2 decimals, sum to 100.0 within 0.02.
C5_SumWithinTwoHundredths ==
    (Classified /\ FiniteCount(ndvi) >= 1)
    => /\ stats_res.ok
       /\ Abs(PercentSum - 10000) <= 2

\* 32 pixels split 1, 1, 1, 29: every percentage is a tie and rounds down
C5_Witness ==
    /\ Classified
    /\ FiniteCount(ndvi) = 32
    /\ counts.healthy = 1 /\ counts.moderate = 1 /\ counts.stressed = 1
    /\ PercentSum = 9998

(***************************************************************************)
(* Properties of the handlers and of the renderer.                         *)
(***************************************************************************)
\* the pipeline steps of an endpoint, in order
StepsOf(endpoint) ==
    <<"read_red", "read_nir", "load_red", "load_nir", "transform", "classify">>
    \o (IF endpoint = "image" THEN <<"render">> ELSE <<>>)

IsPrefix(a, b) == Len(a) <= Len(b) /\ \A i \in 1..Len(a) : a[i] = b[i]

\* C8: a request that failed is answered 400 when the failure is a
\* validation error (decode failure, shape mismatch, no valid pixels) and 500
\* when it is any other, unexpected error; success is answered only when no
\* step failed, and no step runs after a failed one.
C8_StatusByFailureKind ==
    \A r \in Requests :
       req[r].pc = "done"
       => /\ req[r].response.status = 200 <=> req[r].cause = ""
          /\ req[r].response.status = 400
               <=> req[r].cause \in {"decode_failure", "shape_mismatch", "no_valid_pixels"}
          /\ req[r].response.status = 500 <=> req[r].cause = "unexpected"
          /\ IsPrefix(req[r].ran, StepsOf(req[r].endpoint))
          /\ req[r].cause = "" <=> req[r].ran = StepsOf(req[r].endpoint)

\* C9: whatever the interleaving of the two requests at their await points,
\* the response of a request is the one its own two uploads give with a
\* pyplot no other request has touched, and the picture it returns is drawn
\* on the figure its own call created, showing its own NDVI grid.
C9_ResponseFromOwnUploads ==
    \A r \in Requests :
       (req[r].pc = "done" /\ req[r].nir_bytes # "")
       => /\ req[r].response
               = handle(r, req[r].endpoint, req[r].red_band, req[r].nir_band,
                        NoPlt, req[r].fault).response
          /\ (req[r].response.status = 200 /\ req[r].endpoint = "image")
               => /\ req[r].response.image.owner = r
                  /\ req[r].response.image.image
                       = compute_ndvi(Raster(req[r].red_band),
                                      Raster(req[r].nir_band)).value
                  /\ req[r].response.image.colorbar
                  /\ req[r].response.image.laid_out

\* request 1 is suspended in its second await with its own uploads; in the
\* meantime request 2 has been served a picture of its own grid
C9_Witness ==
    /\ req[1].pc = "await_nir"
    /\ req[1].red_band = "g1" /\ req[1].nir_band = "g3"
    /\ req[2].pc = "done"
    /\ req[2].red_band = "g3" /\ req[2].nir_band = "g1"
    /\ req[2].response.status = 200
    /\ req[2].response.image = [BlankFigure(2) EXCEPT
                                   !.image = Grid(1, 1, <<F(-1, 2)>>),
                                   !.colorbar = TRUE, !.laid_out = TRUE]

\* C10: once a request is answered, no figure that its call of
\* generate_ndvi_image created is still open, whether the call returned a
\* picture or raised.
C10_FigureReleased ==
    \A r \in Requests :
       req[r].pc = "done" => \A k \in DOMAIN plt.content : plt.content[k].owner # r

====
